---- MODULE Spec2Model ----
(***************************************************************************)
(* Model of fastspeech2_train.py: the __main__ block resolves the          *)
(* experiment name and calls main(args, configs); main aggregates the      *)
(* per-dataset statistics, creates the output directories, selects the     *)
(* logger, builds the datamodule and dispatches on the stage.              *)
(* One process run is one pass of the pc from "resolve" to "done" or       *)
(* "failed"; NewRun starts a further process on the same filesystem.       *)
(***************************************************************************)
EXTENDS Integers, Sequences, FiniteSets, TLC

VARIABLES run, argv, args, data_configs, algorithm_config, train_config, LOGGER,
          pc, idx, keys, ALLSTATS, DATAPARSERS, trainer_training_config,
          loggers, dirs, files, made, calls, datamodule, model, trainer,
          seed, fitted, error

vars == <<run, argv, args, data_configs, algorithm_config, train_config, LOGGER,
          pc, idx, keys, ALLSTATS, DATAPARSERS, trainer_training_config,
          loggers, dirs, files, made, calls, datamodule, model, trainer,
          seed, fitted, error>>

(* ---------------------------- bounds ----------------------------------- *)
MaxDatasets == 2
MaxRuns == 2

(* ---------------------------- inputs ----------------------------------- *)
None == "<None>"

(* a local name of main that has not been assigned yet *)
Unbound == <<>>

DatasetConfigs ==
    { [name |-> "LJSpeech", data_dir |-> "data/LJSpeech"],
      [name |-> "LibriTTS", data_dir |-> "data/LibriTTS"],
      [name |-> "global",   data_dir |-> "data/global"] }

RECURSIVE DistinctLists(_)
DistinctLists(n) ==
    IF n = 0 THEN { <<>> }
    ELSE LET shorter == DistinctLists(n - 1)
         IN  shorter \cup
             { Append(s, c) : s \in { t \in shorter : Len(t) = n - 1 },
                              c \in DatasetConfigs }

DataConfigLists ==
    { s \in DistinctLists(MaxDatasets) :
        /\ Len(s) >= 1
        /\ \A a, b \in 1..Len(s) : a # b => s[a].name # s[b].name }

ExpNames == { None, "exp1" }
PretrainPaths == { None, "last.ckpt" }
Stages == { "train", "test", "predict", "tune" }
LoggerKeys == { "tb", "comet", "none" }
AlgorithmConfigs == { [type |-> "baseline", name |-> "baseline"],
                      [type |-> "nosuch",   name |-> "baseline"] }
TrainConfigs ==
    { [step |-> [total_step |-> 200, log_step |-> 10],
       optimizer |-> [grad_clip_thresh |-> 1, grad_acc_step |-> 2]] }

(* the filesystems a process may start on: an empty one, and one where a   *)
(* regular file sits where output/exp1/log is wanted                        *)
InitialFilesystems ==
    { [dirs |-> {}, files |-> {}],
      [dirs |-> { <<"output">>, <<"output", "exp1">> },
       files |-> { <<"output", "exp1", "log">> }] }

(* ------------------- collaborators outside this file ------------------- *)
(* DataParser(data_dir).stats_path and the JSON document stored there      *)
stats_path(data_dir) == <<data_dir, "stats.json">>

StatsArtifact(path) ==
    CASE path = stats_path("data/LJSpeech") -> [pitch |-> <<1, 2>>, energy |-> <<3, 4>>]
      [] path = stats_path("data/LibriTTS") -> [pitch |-> <<5>>, energy |-> <<6, 7, 8>>]
      [] path = stats_path("data/global")   -> [pitch |-> <<9, 9>>, energy |-> <<0>>]

(* Define.merge_stats(stats_dict, keys): an uninterpreted function of the  *)
(* entries found under keys, in the order of keys                          *)
merge_stats(stats_dict, ks) ==
    [merged |-> [n \in 1..Len(ks) |-> stats_dict[ks[n]]]]

(* the registry behind get_datamodule / get_system                         *)
RegisteredTypes == { "baseline" }

get_datamodule(type) ==
    IF type \in RegisteredTypes
    THEN [ok |-> TRUE, value |-> <<"DataModule", type>>]
    ELSE [ok |-> FALSE, value |-> "UnknownAlgorithmError"]

get_system(type) ==
    IF type \in RegisteredTypes
    THEN [ok |-> TRUE, value |-> <<"System", type>>]
    ELSE [ok |-> FALSE, value |-> "UnknownAlgorithmError"]

(* ------------------------ pure parts of main --------------------------- *)
TRAINER_CONFIG ==
    [auto_select_gpus |-> TRUE, deterministic |-> TRUE,
     process_position |-> 1, profiler |-> "simple"]

(* variant: the two sequences joined in the other order *)
StatsEntry_EnergyFirst(stats) == stats.energy \o stats.pitch

(* stats = stats["pitch"] + stats["energy"] *)
StatsEntry(stats) == stats.pitch \o stats.energy

(* variant: the explicit name is ignored *)
ResolvedExpName_AlgorithmOnly(exp_name, algo) == algo.name

(* __main__: the experiment name the run uses *)
ResolvedExpName(exp_name, algo) ==
    IF exp_name = None THEN algo.name ELSE exp_name

ckpt_dir(exp_name) == <<"output", exp_name, "ckpt">>
result_dir(exp_name) == <<"output", exp_name, "result">>
log_dir(exp_name) == <<"output", exp_name, "log">>

(* train_config["path"].values(), in insertion order *)
PathValues(tc) == <<tc.path.ckpt_path, tc.path.log_path, tc.path.result_path>>

Prefixes(p) == { SubSeq(p, 1, k) : k \in 1..Len(p) }

(* variant: os.makedirs(p) without exist_ok, which rejects an existing leaf *)
makedirs_NoExistOk(p, ds, fs) ==
    LET blocked == { q \in Prefixes(p) : q \in fs }
    IN  IF blocked = {} /\ p \notin ds
        THEN [ok |-> TRUE, dirs |-> ds \cup Prefixes(p)]
        ELSE [ok |-> FALSE,
              dirs |-> ds \cup { q \in Prefixes(p) :
                                   /\ Len(q) < Len(p)
                                   /\ \A r \in blocked : Len(q) < Len(r) }]

(* os.makedirs(p, exist_ok=True) on the filesystem (ds, fs) *)
makedirs(p, ds, fs) ==
    LET blocked == { q \in Prefixes(p) : q \in fs }
    IN  IF blocked = {}
        THEN [ok |-> TRUE, dirs |-> ds \cup Prefixes(p)]
        ELSE LET first == CHOOSE q \in blocked :
                              \A r \in blocked : Len(q) <= Len(r)
             IN  [ok |-> FALSE,
                  dirs |-> ds \cup { q \in Prefixes(p) : Len(q) < Len(first) }]

(* variant: the second branch taken for every stage other than train *)
Branch_ElseEval(stage) ==
    IF stage = "train" THEN "t_system" ELSE "e_assert"

(* if args.stage == 'train' ... elif args.stage == 'test' or 'predict' ... *)
Branch(stage) ==
    IF stage = "train" THEN "t_system"
    ELSE IF stage = "test" \/ stage = "predict" THEN "e_assert"
    ELSE "done"

(* ----------------------------- state ----------------------------------- *)
FreshProcess(r, fsys) ==
    /\ run = r
    /\ dirs = fsys.dirs
    /\ files = fsys.files
    /\ argv \in [exp_name : ExpNames, pretrain_path : PretrainPaths, stage : Stages]
    /\ args = argv
    /\ data_configs \in DataConfigLists
    /\ algorithm_config \in AlgorithmConfigs
    /\ train_config \in TrainConfigs
    /\ LOGGER \in LoggerKeys
    /\ pc = "resolve"
    /\ idx = 1
    /\ keys = <<>>
    /\ ALLSTATS = <<>>
    /\ DATAPARSERS = <<>>
    /\ trainer_training_config = <<>>
    /\ loggers = None
    /\ made = <<>>
    /\ calls = <<>>
    /\ datamodule = Unbound
    /\ model = Unbound
    /\ trainer = Unbound
    /\ seed = None
    /\ fitted = Unbound
    /\ error = None

Init == \E fsys \in InitialFilesystems : FreshProcess(1, fsys)

(* __main__: if args.exp_name is None: args.exp_name = algorithm_config["name"] *)
ResolveExpName ==
    /\ pc = "resolve"
    /\ args' = [args EXCEPT !.exp_name = ResolvedExpName(args.exp_name, algorithm_config)]
    /\ pc' = "stats"
    /\ UNCHANGED <<run, argv, data_configs, algorithm_config, train_config, LOGGER,
                   idx, keys, ALLSTATS, DATAPARSERS, trainer_training_config,
                   loggers, dirs, files, made, calls, datamodule, model,
                   trainer, seed, fitted, error>>

(* one iteration of: for data_config in data_configs *)
LoadStats ==
    /\ pc = "stats"
    /\ idx <= Len(data_configs)
    /\ LET data_config == data_configs[idx]
           parser == [data_dir |-> data_config.data_dir,
                      stats_path |-> stats_path(data_config.data_dir)]
           stats == StatsEntry(StatsArtifact(parser.stats_path))
       IN  /\ DATAPARSERS' = (data_config.name :> parser) @@ DATAPARSERS
           /\ ALLSTATS' = (data_config.name :> stats) @@ ALLSTATS
           /\ keys' = Append(keys, data_config.name)
    /\ idx' = idx + 1
    /\ UNCHANGED <<run, argv, args, data_configs, algorithm_config, train_config,
                   LOGGER, pc, trainer_training_config, loggers, dirs, files,
                   made, calls, datamodule, model, trainer, seed, fitted, error>>

(* Define.ALLSTATS["global"] = Define.merge_stats(Define.ALLSTATS, keys) *)
MergeStats ==
    /\ pc = "stats"
    /\ idx > Len(data_configs)
    /\ ALLSTATS' = ("global" :> merge_stats(ALLSTATS, keys)) @@ ALLSTATS
    /\ pc' = "options"
    /\ UNCHANGED <<run, argv, args, data_configs, algorithm_config, train_config,
                   LOGGER, idx, keys, DATAPARSERS, trainer_training_config,
                   loggers, dirs, files, made, calls, datamodule, model,
                   trainer, seed, fitted, error>>

(* trainer_training_config = {...}; train_config["path"] = {...} *)
BuildOptions ==
    /\ pc = "options"
    /\ trainer_training_config' =
           [max_steps |-> train_config.step.total_step,
            log_every_n_steps |-> train_config.step.log_step,
            gradient_clip_val |-> train_config.optimizer.grad_clip_thresh,
            accumulate_grad_batches |-> train_config.optimizer.grad_acc_step,
            resume_from_checkpoint |-> args.pretrain_path]
    /\ train_config' =
           ("path" :> [ckpt_path |-> ckpt_dir(args.exp_name),
                       log_path |-> log_dir(args.exp_name),
                       result_path |-> result_dir(args.exp_name)]) @@ train_config
    /\ pc' = "mkdirs"
    /\ idx' = 1
    /\ UNCHANGED <<run, argv, args, data_configs, algorithm_config, LOGGER, keys,
                   ALLSTATS, DATAPARSERS, loggers, dirs, files, made, calls,
                   datamodule, model, trainer, seed, fitted, error>>

(* one iteration of: for p in train_config["path"].values(): os.makedirs *)
MakeDir ==
    /\ pc = "mkdirs"
    /\ idx <= 3
    /\ LET p == PathValues(train_config)[idx]
           res == makedirs(p, dirs, files)
       IN  /\ dirs' = res.dirs
           /\ made' = Append(made, p)
           /\ IF res.ok
              THEN /\ idx' = idx + 1
                   /\ pc' = IF idx = 3 THEN "logger" ELSE "mkdirs"
                   /\ error' = error
              ELSE /\ idx' = idx
                   /\ pc' = "failed"
                   /\ error' = "FileExistsError"
    /\ UNCHANGED <<run, argv, args, data_configs, algorithm_config, train_config,
                   LOGGER, keys, ALLSTATS, DATAPARSERS, trainer_training_config,
                   loggers, files, calls, datamodule, model, trainer, seed,
                   fitted>>

(* loggers = None; if args.stage in ["train"]: if Define.LOGGER == "tb" ... *)
InitLogger ==
    /\ pc = "logger"
    /\ loggers' = IF args.stage \in {"train"}
                  THEN IF LOGGER = "tb"
                       THEN << <<"TensorBoardLogger", log_dir(args.exp_name), "tb">> >>
                       ELSE None
                  ELSE None
    /\ pc' = "datamodule"
    /\ UNCHANGED <<run, argv, args, data_configs, algorithm_config, train_config,
                   LOGGER, idx, keys, ALLSTATS, DATAPARSERS,
                   trainer_training_config, dirs, files, made, calls,
                   datamodule, model, trainer, seed, fitted, error>>

(* variant: a failed lookup is swallowed and the run goes on without a datamodule *)
GetDatamodule_IgnoreLookupFailure ==
    /\ pc = "datamodule"
    /\ calls' = Append(calls, "get_datamodule")
    /\ LET factory == get_datamodule(algorithm_config.type)
       IN  datamodule' = IF factory.ok
                         THEN [factory |-> factory.value,
                               log_dir |-> log_dir(args.exp_name),
                               result_dir |-> result_dir(args.exp_name)]
                         ELSE datamodule
    /\ pc' = Branch(args.stage)
    /\ UNCHANGED <<run, argv, args, data_configs, algorithm_config, train_config,
                   LOGGER, idx, keys, ALLSTATS, DATAPARSERS,
                   trainer_training_config, loggers, dirs, files, made,
                   model, trainer, seed, fitted, error>>

(* datamodule = get_datamodule(algorithm_config["type"])(...) *)
GetDatamodule ==
    /\ pc = "datamodule"
    /\ calls' = Append(calls, "get_datamodule")
    /\ LET factory == get_datamodule(algorithm_config.type)
       IN  IF factory.ok
           THEN /\ datamodule' = [factory |-> factory.value,
                                  log_dir |-> log_dir(args.exp_name),
                                  result_dir |-> result_dir(args.exp_name)]
                /\ pc' = Branch(args.stage)
                /\ error' = error
           ELSE /\ datamodule' = datamodule
                /\ pc' = "failed"
                /\ error' = factory.value
    /\ UNCHANGED <<run, argv, args, data_configs, algorithm_config, train_config,
                   LOGGER, idx, keys, ALLSTATS, DATAPARSERS,
                   trainer_training_config, loggers, dirs, files, made,
                   model, trainer, seed, fitted>>

(* variant: the checkpoint is never consulted when building the model *)
TrainGetSystem_AlwaysFresh ==
    /\ pc = "t_system"
    /\ LET system == get_system(algorithm_config.type)
       IN  IF system.ok
           THEN /\ model' = [system |-> system.value, from |-> None,
                             log_dir |-> log_dir(args.exp_name)]
                /\ calls' = calls \o <<"get_system", "system">>
                /\ pc' = "t_trainer"
                /\ error' = error
           ELSE /\ model' = model
                /\ calls' = Append(calls, "get_system")
                /\ pc' = "failed"
                /\ error' = system.value
    /\ UNCHANGED <<run, argv, args, data_configs, algorithm_config, train_config,
                   LOGGER, idx, keys, ALLSTATS, DATAPARSERS,
                   trainer_training_config, loggers, dirs, files, made,
                   datamodule, trainer, seed, fitted>>

(* train: system = get_system(...); fresh model or load_from_checkpoint *)
TrainGetSystem ==
    /\ pc = "t_system"
    /\ LET system == get_system(algorithm_config.type)
       IN  IF system.ok
           THEN /\ IF args.pretrain_path = None
                   THEN /\ model' = [system |-> system.value, from |-> None,
                                     log_dir |-> log_dir(args.exp_name)]
                        /\ calls' = calls \o <<"get_system", "system">>
                   ELSE /\ model' = [system |-> system.value,
                                     from |-> args.pretrain_path,
                                     log_dir |-> log_dir(args.exp_name)]
                        /\ calls' = calls \o <<"get_system", "load_from_checkpoint">>
                /\ pc' = "t_trainer"
                /\ error' = error
           ELSE /\ model' = model
                /\ calls' = Append(calls, "get_system")
                /\ pc' = "failed"
                /\ error' = system.value
    /\ UNCHANGED <<run, argv, args, data_configs, algorithm_config, train_config,
                   LOGGER, idx, keys, ALLSTATS, DATAPARSERS,
                   trainer_training_config, loggers, dirs, files, made,
                   datamodule, trainer, seed, fitted>>

(* train: pl.Trainer with TRAINER_CONFIG and trainer_training_config, logger=loggers when set *)
TrainBuildTrainer ==
    /\ pc = "t_trainer"
    /\ trainer' = IF loggers # None
                  THEN ("logger" :> loggers) @@ TRAINER_CONFIG @@ trainer_training_config
                  ELSE TRAINER_CONFIG @@ trainer_training_config
    /\ calls' = Append(calls, "Trainer")
    /\ pc' = "t_seed"
    /\ UNCHANGED <<run, argv, args, data_configs, algorithm_config, train_config,
                   LOGGER, idx, keys, ALLSTATS, DATAPARSERS,
                   trainer_training_config, loggers, dirs, files, made,
                   datamodule, model, seed, fitted, error>>

(* train: pl.seed_everything(43, True) *)
SeedEverything ==
    /\ pc = "t_seed"
    /\ seed' = 43
    /\ calls' = Append(calls, "seed_everything")
    /\ pc' = "t_fit"
    /\ UNCHANGED <<run, argv, args, data_configs, algorithm_config, train_config,
                   LOGGER, idx, keys, ALLSTATS, DATAPARSERS,
                   trainer_training_config, loggers, dirs, files, made,
                   datamodule, model, trainer, fitted, error>>

(* train: trainer.fit(model, datamodule=datamodule) *)
Fit ==
    /\ pc = "t_fit"
    /\ calls' = Append(calls, "fit")
    /\ fitted' = [trainer |-> trainer, model |-> model,
                  datamodule |-> datamodule, seed |-> seed]
    /\ pc' = "done"
    /\ UNCHANGED <<run, argv, args, data_configs, algorithm_config, train_config,
                   LOGGER, idx, keys, ALLSTATS, DATAPARSERS,
                   trainer_training_config, loggers, dirs, files, made,
                   datamodule, model, trainer, seed, error>>

(* test/predict: assert pretrain_ckpt_file is not None *)
AssertCheckpoint ==
    /\ pc = "e_assert"
    /\ IF args.pretrain_path # None
       THEN pc' = "e_system" /\ error' = error
       ELSE pc' = "failed" /\ error' = "AssertionError"
    /\ UNCHANGED <<run, argv, args, data_configs, algorithm_config, train_config,
                   LOGGER, idx, keys, ALLSTATS, DATAPARSERS,
                   trainer_training_config, loggers, dirs, files, made, calls,
                   datamodule, model, trainer, seed, fitted>>

(* variant: the model-system is constructed instead of restored *)
TestLoadSystem_Fresh ==
    /\ pc = "e_system"
    /\ LET system == get_system(algorithm_config.type)
       IN  IF system.ok
           THEN /\ model' = [system |-> system.value, from |-> None,
                             log_dir |-> None]
                /\ calls' = calls \o <<"get_system", "system">>
                /\ pc' = "e_trainer"
                /\ error' = error
           ELSE /\ model' = model
                /\ calls' = Append(calls, "get_system")
                /\ pc' = "failed"
                /\ error' = system.value
    /\ UNCHANGED <<run, argv, args, data_configs, algorithm_config, train_config,
                   LOGGER, idx, keys, ALLSTATS, DATAPARSERS,
                   trainer_training_config, loggers, dirs, files, made,
                   datamodule, trainer, seed, fitted>>

(* test/predict: system = get_system(...); model = system.load_from_checkpoint(ckpt) *)
TestLoadSystem ==
    /\ pc = "e_system"
    /\ LET system == get_system(algorithm_config.type)
       IN  IF system.ok
           THEN /\ model' = [system |-> system.value,
                             from |-> args.pretrain_path, log_dir |-> None]
                /\ calls' = calls \o <<"get_system", "load_from_checkpoint">>
                /\ pc' = "e_trainer"
                /\ error' = error
           ELSE /\ model' = model
                /\ calls' = Append(calls, "get_system")
                /\ pc' = "failed"
                /\ error' = system.value
    /\ UNCHANGED <<run, argv, args, data_configs, algorithm_config, train_config,
                   LOGGER, idx, keys, ALLSTATS, DATAPARSERS,
                   trainer_training_config, loggers, dirs, files, made,
                   datamodule, trainer, seed, fitted>>

(* test/predict: pl.Trainer with TRAINER_CONFIG only *)
TestBuildTrainer ==
    /\ pc = "e_trainer"
    /\ trainer' = TRAINER_CONFIG
    /\ calls' = Append(calls, "Trainer")
    /\ pc' = "e_test"
    /\ UNCHANGED <<run, argv, args, data_configs, algorithm_config, train_config,
                   LOGGER, idx, keys, ALLSTATS, DATAPARSERS,
                   trainer_training_config, loggers, dirs, files, made,
                   datamodule, model, seed, fitted, error>>

(* test/predict: trainer.test(model, datamodule=datamodule) *)
Test ==
    /\ pc = "e_test"
    /\ calls' = Append(calls, "test")
    /\ pc' = "done"
    /\ UNCHANGED <<run, argv, args, data_configs, algorithm_config, train_config,
                   LOGGER, idx, keys, ALLSTATS, DATAPARSERS,
                   trainer_training_config, loggers, dirs, files, made,
                   datamodule, model, trainer, seed, fitted, error>>

(* the script is started again: a new process on the filesystem left behind *)
NewRun ==
    /\ pc \in {"done", "failed"}
    /\ run < MaxRuns
    /\ run' = run + 1
    /\ argv' \in [exp_name : ExpNames, pretrain_path : PretrainPaths, stage : Stages]
    /\ args' = argv'
    /\ data_configs' \in DataConfigLists
    /\ algorithm_config' \in AlgorithmConfigs
    /\ train_config' \in TrainConfigs
    /\ LOGGER' \in LoggerKeys
    /\ pc' = "resolve"
    /\ idx' = 1
    /\ keys' = <<>>
    /\ ALLSTATS' = <<>>
    /\ DATAPARSERS' = <<>>
    /\ trainer_training_config' = <<>>
    /\ loggers' = None
    /\ made' = <<>>
    /\ calls' = <<>>
    /\ datamodule' = Unbound
    /\ model' = Unbound
    /\ trainer' = Unbound
    /\ seed' = None
    /\ fitted' = Unbound
    /\ error' = None
    /\ UNCHANGED <<dirs, files>>

Next ==
    \/ ResolveExpName
    \/ LoadStats
    \/ MergeStats
    \/ BuildOptions
    \/ MakeDir
    \/ InitLogger
    \/ GetDatamodule
    \/ TrainGetSystem
    \/ TrainBuildTrainer
    \/ SeedEverything
    \/ Fit
    \/ AssertCheckpoint
    \/ TestLoadSystem
    \/ TestBuildTrainer
    \/ Test
    \/ NewRun

Spec == Init /\ [][Next]_vars

(* ======================= properties of the run ========================= *)
Count(op) == Cardinality({ k \in 1..Len(calls) : calls[k] = op })

Lifecycle == Count("fit") + Count("test")

RecognizedStages == { "train", "test", "predict" }

ExpectedExpName ==
    IF argv.exp_name = None THEN algorithm_config.name ELSE argv.exp_name

OutputDirs(name) ==
    { <<"output", name, "ckpt">>, <<"output", name, "result">>,
      <<"output", name, "log">> }

MkdirsDone == Len(made) = 3 /\ error # "FileExistsError"

DatasetNames == { data_configs[k].name : k \in 1..Len(data_configs) }

AggregationDone == pc \notin { "resolve", "stats" }

(* the artifact of the k-th dataset, read where its parser points *)
ArtifactOf(k) == StatsArtifact(stats_path(data_configs[k].data_dir))

IsPitchThenEnergy(entry, a) ==
    /\ Len(entry) = Len(a.pitch) + Len(a.energy)
    /\ \A j \in 1..Len(a.pitch) : entry[j] = a.pitch[j]
    /\ \A j \in 1..Len(a.energy) : entry[Len(a.pitch) + j] = a.energy[j]

(* C1: a test/predict run without a checkpoint fails on the checkpoint     *)
(* assertion before get_datamodule has been called and before any Trainer  *)
(* has been constructed.                                                   *)
C1_FailsBeforeConstruction ==
    ( /\ argv.stage \in { "test", "predict" }
      /\ argv.pretrain_path = None
      /\ pc = "failed"
      /\ error = "AssertionError" )
    => ( Count("get_datamodule") = 0 /\ Count("Trainer") = 0 )

(* C2: after the aggregation loop ALLSTATS holds one entry per dataset of  *)
(* the list plus one under "global", its key set is the dataset names plus *)
(* "global", and the "global" entry is merge_stats of the per-dataset      *)
(* entries.                                                                *)
C2_OneEntryPerDatasetPlusGlobal ==
    AggregationDone =>
        /\ DOMAIN ALLSTATS = DatasetNames \cup { "global" }
        /\ Cardinality(DOMAIN ALLSTATS) = Len(data_configs) + 1
        /\ ALLSTATS["global"] =
               merge_stats([n \in DatasetNames |->
                               LET k == CHOOSE k \in 1..Len(data_configs) :
                                            data_configs[k].name = n
                               IN  ArtifactOf(k).pitch \o ArtifactOf(k).energy],
                           [k \in 1..Len(data_configs) |-> data_configs[k].name])

(* C3: while the loop runs, every dataset processed so far has under its   *)
(* name the artifact's pitch sequence followed by its energy sequence,     *)
(* nothing added, dropped or reordered; pitch [1,2], energy [3,4] gives    *)
(* [1,2,3,4].                                                              *)
C3_PitchThenEnergy ==
    pc = "stats" =>
        /\ Len(keys) = idx - 1
        /\ \A k \in 1..Len(keys) :
              /\ keys[k] = data_configs[k].name
              /\ keys[k] \in DOMAIN ALLSTATS
              /\ IsPitchThenEnergy(ALLSTATS[keys[k]], ArtifactOf(k))
        /\ ( "LJSpeech" \in DOMAIN ALLSTATS => ALLSTATS["LJSpeech"] = <<1, 2, 3, 4>> )

C3_Witness ==
    /\ pc = "stats"
    /\ Len(keys) = 2
    /\ keys[2] = "LJSpeech"
    /\ ALLSTATS["LJSpeech"] = <<1, 2, 3, 4>>

(* C4: the experiment name in use is the explicit one when given, else the *)
(* algorithm config's name, and once the directory loop has completed the  *)
(* directories asked for are exactly output/<name>/{ckpt,result,log}, all  *)
(* present on the filesystem.                                              *)
C4_ExpNameAndDirs ==
    /\ pc # "resolve" => args.exp_name = ExpectedExpName
    /\ MkdirsDone =>
          /\ { made[k] : k \in 1..Len(made) } = OutputDirs(ExpectedExpName)
          /\ OutputDirs(ExpectedExpName) \subseteq dirs
          /\ train_config.path = [ckpt_path |-> <<"output", ExpectedExpName, "ckpt">>,
                                  log_path |-> <<"output", ExpectedExpName, "log">>,
                                  result_path |-> <<"output", ExpectedExpName, "result">>]
          /\ ( argv.exp_name = None /\ algorithm_config.name = "baseline"
               => OutputDirs("baseline") \subseteq dirs )

C4_Witness ==
    /\ MkdirsDone
    /\ argv.exp_name = None
    /\ args.exp_name = "baseline"
    /\ OutputDirs("baseline") \subseteq dirs

(* C5: when the three output directories already exist, a step of the      *)
(* directory loop does not fail and leaves the set of directories as it    *)
(* was.                                                                    *)
C5_MakedirsIdempotent ==
    [][ ( pc = "mkdirs" /\ OutputDirs(args.exp_name) \subseteq dirs )
        => ( pc' # "failed" /\ error' = None /\ dirs' = dirs ) ]_vars

C5_Witness ==
    /\ run = 2
    /\ pc = "mkdirs"
    /\ idx = 3
    /\ Len(made) = 2
    /\ OutputDirs(args.exp_name) \subseteq dirs

C7_EvalRestoresAndTestsOnce ==
    argv.stage \in { "test", "predict" } =>
        /\ Count("fit") = 0
        /\ Count("system") = 0
        /\ Count("test") <= 1
        /\ ( Count("test") = 1 => pc = "done" )
        /\ ( pc = "done" =>
               /\ argv.pretrain_path # None
               /\ calls = <<"get_datamodule", "get_system",
                            "load_from_checkpoint", "Trainer", "test">>
               /\ model.from = argv.pretrain_path )

C7_Witness ==
    /\ argv.stage = "predict"
    /\ pc = "done"
    /\ Count("test") = 1
    /\ Count("load_from_checkpoint") = 1

(* C8: in stage train test is never invoked; a run that completes built    *)
(* the model fresh exactly when no pretrain path was given and restored it *)
(* from the path otherwise, and invoked fit exactly once, after the seed   *)
(* was set, on a trainer whose max_steps is step.total_step and whose      *)
(* resume_from_checkpoint is the pretrain path.                            *)
C8_TrainFitsOnce ==
    argv.stage = "train" =>
        /\ Count("test") = 0
        /\ Count("fit") <= 1
        /\ ( Count("fit") = 1 => pc = "done" )
        /\ ( pc = "done" =>
               /\ calls = <<"get_datamodule", "get_system",
                            IF argv.pretrain_path = None
                            THEN "system" ELSE "load_from_checkpoint",
                            "Trainer", "seed_everything", "fit">>
               /\ model.from = argv.pretrain_path
               /\ fitted.model = model
               /\ fitted.seed = 43
               /\ fitted.trainer.max_steps = train_config.step.total_step
               /\ fitted.trainer.resume_from_checkpoint = argv.pretrain_path )

C8_Witness ==
    /\ argv.stage = "train"
    /\ argv.pretrain_path # None
    /\ pc = "done"
    /\ Count("fit") = 1
    /\ model.from = argv.pretrain_path

(* C9: the trainer carries the backend named by the logger key when the    *)
(* key is "tb" or "comet" and the stage is train, and carries no explicit  *)
(* logger for any other key or any other stage.                            *)
C9_LoggerSelected ==
    Count("Trainer") = 1 =>
        IF argv.stage = "train" /\ LOGGER \in { "tb", "comet" }
        THEN /\ "logger" \in DOMAIN trainer
             /\ trainer.logger[1][1] =
                    IF LOGGER = "tb" THEN "TensorBoardLogger" ELSE "CometLogger"
        ELSE "logger" \notin DOMAIN trainer

(* C10: at most one lifecycle action is invoked in a run, and only for a   *)
(* recognized stage whose checkpoint precondition holds; a run that        *)
(* returns normally has invoked exactly one iff the stage is recognized,   *)
(* and for an unrecognized stage it returns without error, model or        *)
(* trainer, with the stats merged, the directories created and the         *)
(* datamodule built.                                                       *)
C10_LifecycleIffRecognized ==
    /\ Lifecycle <= 1
    /\ ( Lifecycle = 1 =>
           /\ argv.stage \in RecognizedStages
           /\ ( argv.stage = "train" \/ argv.pretrain_path # None ) )
    /\ ( pc = "done" => ( Lifecycle = 1 <=> argv.stage \in RecognizedStages ) )
    /\ ( argv.stage \notin RecognizedStages =>
           /\ pc \notin { "t_system", "t_trainer", "t_seed", "t_fit",
                          "e_assert", "e_system", "e_trainer", "e_test" }
           /\ error \notin { "AssertionError" }
           /\ model = Unbound
           /\ trainer = Unbound
           /\ Count("get_system") = 0
           /\ ( pc = "done" =>
                  /\ error = None
                  /\ "global" \in DOMAIN ALLSTATS
                  /\ OutputDirs(args.exp_name) \subseteq dirs
                  /\ calls = <<"get_datamodule">>
                  /\ datamodule # Unbound ) )

C10_Witness ==
    /\ argv.stage = "tune"
    /\ pc = "done"
    /\ calls = <<"get_datamodule">>
    /\ "global" \in DOMAIN ALLSTATS

====
